---- MODULE Spec2Model ----
(***************************************************************************)
(* A model of decyclify (kinow/decyclify): the depth-first removal of      *)
(* back-edges in decyclify/functions.py, the two dependency matrices built *)
(* from its result, and the iterators of decyclify/node_iterators.py that  *)
(* replay the decyclified graph over a number of cycles.                   *)
(*                                                                         *)
(* Python objects live in a heap of references, so that "the caller's      *)
(* graph" and "the working copy" are different objects only because the    *)
(* code copies.  A DiGraph keeps its nodes and each node's successors in   *)
(* insertion order (sequences), and a per-node 'color' attribute.          *)
(***************************************************************************)
EXTENDS Integers, Sequences, FiniteSets, TLC

\* Node labels.
Node == {"a", "b", "c", "d", "e"}

\* The labels the caller builds arbitrary graphs from.
BuildNode == {"a", "b", "c"}

\* Python's None (the default of start_node).
None == "None"

\* Largest number of add_edge / add_node / list-append calls of the caller.
MaxOps == 3

\* Largest length of the removed-edge list given to create_interiteration_matrix
\* when it is called on its own.
MaxCycles == 2

\* Largest valid `cycles` argument given to CycleIterator and TasksIterator.
MaxIterations == 2

VARIABLES
    pc,                     \* where the caller / decyclify stands
    heap,                   \* reference -> Python object
    ops,                    \* number of build calls made by the caller
    given,                  \* the caller's argument as it was when decyclify was called
    start_arg,              \* the start_node argument as passed
    graph,                  \* decyclify's local `graph` (a reference)
    start_node,             \* decyclify's local `start_node`
    cycles_detected,        \* decyclify's local `cycles_detected`
    stack,                  \* the call stack of _dfs_visit: frames (node, rest of the loop)
    scan,                   \* position of the loop of line 107 (0: not yet there)
    result,                 \* what decyclify returned
    error,                  \* the exception raised, or None
    round,                  \* 1: first call; 2: decyclify applied to its own result
    first,                  \* the result of the first call, kept by the caller
    matrix_of,              \* reference of the graph given to create_intraiteration_matrix
    matrix_intraiteration,  \* what create_intraiteration_matrix returned
    nodes_arg,              \* the `nodes` given to create_interiteration_matrix
    cycles_arg,             \* the `cycles` given to create_interiteration_matrix
    matrix_interiteration,  \* what create_interiteration_matrix returned
    iter_graph,             \* reference of the graph given to an iterator's constructor
    iter_cycles,            \* the `cycles` argument given to an iterator's constructor
    cycle_iterator,         \* the CycleIterator object, once constructed
    tasks_iterator,         \* the TasksIterator object and its Cycle objects
    batches                 \* the batches the iterator has returned so far

matrices == <<matrix_of, matrix_intraiteration, nodes_arg, cycles_arg,
              matrix_interiteration>>

iterators == <<iter_graph, iter_cycles, cycle_iterator, tasks_iterator, batches>>

vars == <<pc, heap, ops, given, start_arg, graph, start_node, cycles_detected,
          stack, scan, result, error, round, first, matrices, iterators>>

-----------------------------------------------------------------------------
(* Sequences *)

SeqToSet(s) == {s[i] : i \in DOMAIN s}

Contains(s, x) == \E i \in DOMAIN s : s[i] = x

\* list.index / dict built by enumerate: the position of x in s (1-based; the
\* dict comprehension of line 230 keeps the last position of a repeated key).
IndexOf(s, x) == CHOOSE i \in DOMAIN s : s[i] = x /\ \A k \in DOMAIN s : s[k] = x => k <= i

-----------------------------------------------------------------------------
(* Python objects *)

Refs == 1..3

\* The reference of the object the caller passes.
ArgRef == 1

NoAdj == [n \in Node |-> <<>>]
NoColor == [n \in Node |-> "none"]

\* type: "DiGraph", "List" (a list of "u v" lines), "Other" (anything else,
\* such as the integer 10) or "Free" (no object).
Object(t) == [type |-> t, lines |-> <<>>, nodes |-> <<>>, adj |-> NoAdj, color |-> NoColor]

EmptyDiGraph == Object("DiGraph")

\* DiGraph.add_node: a new node goes to the end of the node order.
add_node(G, n) ==
    IF Contains(G.nodes, n) THEN G
    ELSE [G EXCEPT !.nodes = Append(@, n)]

\* DiGraph.add_edge: both ends are added (source first), then the successor.
add_edge(G, u, v) ==
    LET G2 == add_node(add_node(G, u), v)
    IN  IF Contains(G2.adj[u], v) THEN G2
        ELSE [G2 EXCEPT !.adj[u] = Append(@, v)]

has_edge(G, u, v) == Contains(G.adj[u], v)

Edges(G) == {e \in Node \X Node : has_edge(G, e[1], e[2])}

RECURSIVE parse_lines(_, _)
parse_lines(G, lines) ==
    IF lines = <<>> THEN G
    ELSE parse_lines(add_edge(G, Head(lines)[1], Head(lines)[2]), Tail(lines))

\* networkx parse_edgelist(lines, create_using=DiGraph).
parse_edgelist(lines) == parse_lines(EmptyDiGraph, lines)

\* isinstance(graph, DiGraph) or isinstance(graph, List)
is_graph_or_list(o) == o.type \in {"DiGraph", "List"}

\* graph = graph.copy(): a new object with the same nodes, edges and attributes.
copy_aliased(h, r) == [heap |-> h, ref |-> r]

\* a wrong variant of the copy: a graph rebuilt from the edges alone, which leaves
\* out the nodes that have no edge
copy_edges_only(h, r) ==
    [heap |-> [h EXCEPT ![r + 1] =
                  [h[r] EXCEPT !.nodes =
                      SelectSeq(h[r].nodes,
                                LAMBDA n : \/ h[r].adj[n] # <<>>
                                           \/ \E u \in Node : Contains(h[r].adj[u], n))]],
     ref |-> r + 1]

graph_copy(h, r) == [heap |-> [h EXCEPT ![r + 1] = h[r]], ref |-> r + 1]

\* graph.remove_edge(source, target)
remove_edge_noop(G, u, v) == G

remove_edge(G, u, v) ==
    [G EXCEPT !.adj[u] = SelectSeq(@, LAMBDA x : x # v)]

\* for node in nodes: graph.nodes[node]['color'] = 'white'
color_white(G) ==
    [G EXCEPT !.color = [n \in Node |-> IF Contains(G.nodes, n) THEN "white" ELSE @[n]]]

\* vertex_color == 'gray': the vertex is on the current traversal path
is_back_link_any(vertex_color) == vertex_color # "white"

is_back_link(vertex_color) == vertex_color = "gray"

\* the condition of line 103 on an edge of the graph
crosses_frontier(G, source, target) ==
    G.color[source] = "white" /\ G.color[target] = "black"

\* lines 100-104: every edge crossing the iteration frontier is removed
remove_frontier_edges(G) ==
    [G EXCEPT !.adj = [u \in Node |->
        SelectSeq(G.adj[u], LAMBDA v : ~crosses_frontier(G, u, v))]]

-----------------------------------------------------------------------------
(* The matrices: lists of rows, rows and columns in the node order (1-based) *)

\* np.full((rows, cols), value)
np_full_oversized(rows, cols, value) ==
    [i \in 1..(rows + 1) |-> [j \in 1..(cols + 1) |-> value]]

np_full(rows, cols, value) == [i \in 1..rows |-> [j \in 1..cols |-> value]]

\* matrix.itemset((row, col), value)
itemset(M, row, col, value) == [M EXCEPT ![row][col] = value]

\* lines 169-172: the cell (i, j) is set when i, j are not the same index and
\* node_1 (index i) is in the adjacency of node_2 (index j)
intra_cell_transposed(G, i, j) ==
    i # j /\ Contains(G.adj[G.nodes[i]], G.nodes[j])

intra_cell(G, i, j) ==
    i # j /\ Contains(G.adj[G.nodes[j]], G.nodes[i])

\* lines 166-174: the two nested loops, k counting the pairs (i, j) row by row
RECURSIVE intra_loop(_, _, _)
intra_loop(G, M, k) ==
    LET n == Len(G.nodes)
        i == (k \div n) + 1
        j == (k % n) + 1
    IN  IF k >= n * n THEN M
        ELSE intra_loop(G, IF intra_cell(G, i, j) THEN itemset(M, i, j, 1) ELSE M, k + 1)

\* create_intraiteration_matrix, lines 152-176, for a DiGraph or a List
create_intraiteration_matrix(o) ==
    LET G == IF o.type = "List" THEN parse_edgelist(o.lines) ELSE o
        number_of_nodes == Len(G.nodes)
    IN  IF number_of_nodes = 0 THEN <<>>
        ELSE intra_loop(G, np_full(number_of_nodes, number_of_nodes, 0), 0)

\* lines 235-239: the cell a removed edge (source, target) sets: row of the
\* target, column of the source
inter_cell_transposed(nodes, cycle) ==
    [row |-> IndexOf(nodes, cycle[1]), col |-> IndexOf(nodes, cycle[2])]

inter_cell(nodes, cycle) ==
    [row |-> IndexOf(nodes, cycle[2]), col |-> IndexOf(nodes, cycle[1])]

\* lines 234-239: the loop over the removed edges
RECURSIVE inter_loop(_, _, _)
inter_loop(nodes, M, cycles) ==
    IF cycles = <<>> THEN M
    ELSE LET cell == inter_cell(nodes, Head(cycles))
         IN  inter_loop(nodes, itemset(M, cell.row, cell.col, 1), Tail(cycles))

\* create_interiteration_matrix, lines 219-241
create_interiteration_matrix(nodes, cycles) ==
    IF cycles = <<>> THEN <<>>
    ELSE IF Len(nodes) = 0 THEN <<>>
    ELSE inter_loop(nodes, np_full(Len(nodes), Len(nodes), 0), cycles)

-----------------------------------------------------------------------------
(* The caller builds its argument *)

\* before any iterator is constructed
NoCycles == [type |-> "none", value |-> 0]

NoIterator == [class |-> "none"]

NoResult == [shape |-> "none", graph |-> 0, cycles |-> <<>>]

NoFirst == [shape |-> "none", start |-> None, nodes |-> <<>>, adj |-> NoAdj,
            cycles |-> <<>>]

InitLocals ==
    /\ ops = 0
    /\ given = Object("Free")
    /\ start_arg = None
    /\ graph = 0
    /\ start_node = None
    /\ cycles_detected = <<>>
    /\ stack = <<>>
    /\ scan = 0
    /\ result = NoResult
    /\ error = None
    /\ round = 1
    /\ first = NoFirst
    /\ matrix_of = 0
    /\ matrix_intraiteration = <<>>
    /\ matrix_interiteration = <<>>
    /\ iter_graph = 0
    /\ iter_cycles = NoCycles
    /\ cycle_iterator = NoIterator
    /\ tasks_iterator = NoIterator
    /\ batches = <<>>

Init ==
    /\ pc = "build"
    /\ \E t \in {"DiGraph", "List", "Other"} :
          heap = [r \in Refs |-> IF r = ArgRef THEN Object(t) ELSE Object("Free")]
    /\ nodes_arg = <<>>
    /\ cycles_arg = <<>>
    /\ InitLocals

call_locals == <<given, start_arg, graph, start_node, cycles_detected, stack, scan,
                 result, error, round, first, matrices, iterators>>

\* graph.add_edge(u, v) on the caller's DiGraph
AddEdge(u, v) ==
    /\ pc = "build" /\ ops < MaxOps
    /\ heap[ArgRef].type = "DiGraph"
    /\ heap' = [heap EXCEPT ![ArgRef] = add_edge(@, u, v)]
    /\ ops' = ops + 1
    /\ UNCHANGED <<pc, call_locals>>

\* graph.add_node(u) on the caller's DiGraph
AddNode(u) ==
    /\ pc = "build" /\ ops < MaxOps
    /\ heap[ArgRef].type = "DiGraph"
    /\ ~Contains(heap[ArgRef].nodes, u)
    /\ heap' = [heap EXCEPT ![ArgRef] = add_node(@, u)]
    /\ ops' = ops + 1
    /\ UNCHANGED <<pc, call_locals>>

\* the caller appends the line "u v" to its edge list
AddLine(u, v) ==
    /\ pc = "build" /\ ops < MaxOps
    /\ heap[ArgRef].type = "List"
    /\ heap' = [heap EXCEPT ![ArgRef].lines = Append(@, <<u, v>>)]
    /\ ops' = ops + 1
    /\ UNCHANGED <<pc, call_locals>>

-----------------------------------------------------------------------------
(* decyclify and _dfs_visit *)

Frame(n, G) == [node |-> n, pending |-> G.adj[n]]

\* _dfs_visit, line 52: the node turns gray
dfs_enter(G, n) == [G EXCEPT !.color[n] = "gray"]

\* decyclify, lines 75-97, up to the first call of _dfs_visit, called with the
\* argument at ArgRef of the heap h and the start node s.
decyclify(h, s) ==
    /\ given' = h[ArgRef]
    /\ start_arg' = s
    /\ cycles_detected' = <<>>
    /\ scan' = 0
    /\ IF ~is_graph_or_list(h[ArgRef])
       THEN /\ error' = "TypeError"
            /\ pc' = "raised"
            /\ heap' = h
            /\ graph' = 0
            /\ start_node' = s
            /\ stack' = <<>>
            /\ result' = NoResult
       ELSE LET parsed == IF h[ArgRef].type = "List"
                          THEN [heap |-> [h EXCEPT ![ArgRef + 1] =
                                              parse_edgelist(h[ArgRef].lines)],
                                ref |-> ArgRef + 1]
                          ELSE [heap |-> h, ref |-> ArgRef]
                copied == graph_copy(parsed.heap, parsed.ref)
                g == copied.ref
                G == copied.heap[g]
            IN  /\ graph' = g
                /\ IF Len(G.nodes) = 0
                   THEN \* line 86: return graph
                        /\ heap' = copied.heap
                        /\ result' = [shape |-> "graph", graph |-> g, cycles |-> <<>>]
                        /\ pc' = "returned"
                        /\ start_node' = s
                        /\ stack' = <<>>
                        /\ error' = None
                   ELSE LET W == color_white(G)
                            start == IF s = None THEN W.nodes[1] ELSE s
                        IN  /\ start_node' = start
                            /\ result' = NoResult
                            /\ IF ~Contains(W.nodes, start)
                               THEN \* line 52: graph.nodes[start_node] raises
                                    /\ heap' = [copied.heap EXCEPT ![g] = W]
                                    /\ error' = "KeyError"
                                    /\ pc' = "raised"
                                    /\ stack' = <<>>
                               ELSE /\ heap' = [copied.heap EXCEPT ![g] = dfs_enter(W, start)]
                                    /\ stack' = <<Frame(start, W)>>
                                    /\ pc' = "dfs"
                                    /\ error' = None

\* the caller calls decyclify(graph, start_node)
Decyclify(s) ==
    /\ pc = "build"
    /\ decyclify(heap, s)
    /\ UNCHANGED <<ops, round, first, matrices, iterators>>

\* the caller calls decyclify again, on the graph the first call returned
DecyclifyAgain ==
    /\ pc = "returned" /\ round = 1
    /\ round' = 2
    /\ first' = [shape |-> result.shape, start |-> start_arg,
                 nodes |-> heap[result.graph].nodes, adj |-> heap[result.graph].adj,
                 cycles |-> result.cycles]
    /\ decyclify([r \in Refs |-> IF r = ArgRef THEN heap[result.graph] ELSE Object("Free")],
                 None)
    /\ UNCHANGED <<ops, matrices, iterators>>

Top == stack[Len(stack)]

Vertex == Head(Top.pending)

Advanced == [stack EXCEPT ![Len(stack)].pending = Tail(@)]

dfs_frame == <<ops, given, start_arg, graph, start_node, scan, result, error, round,
               first, matrices, iterators>>

\* lines 55-57: the vertex is white, recurse
DfsRecurse ==
    /\ pc = "dfs" /\ stack # <<>> /\ Top.pending # <<>>
    /\ heap[graph].color[Vertex] = "white"
    /\ heap' = [heap EXCEPT ![graph] = dfs_enter(@, Vertex)]
    /\ stack' = Append(Advanced, Frame(Vertex, heap[graph]))
    /\ UNCHANGED <<pc, cycles_detected, dfs_frame>>

\* lines 58-61: the vertex is gray, the edge is a back link and is removed
DfsBackLink ==
    /\ pc = "dfs" /\ stack # <<>> /\ Top.pending # <<>>
    /\ heap[graph].color[Vertex] # "white"
    /\ is_back_link(heap[graph].color[Vertex])
    /\ cycles_detected' = Append(cycles_detected, <<Top.node, Vertex>>)
    /\ heap' = [heap EXCEPT ![graph] = remove_edge(@, Top.node, Vertex)]
    /\ stack' = Advanced
    /\ UNCHANGED <<pc, dfs_frame>>

\* the vertex is black: nothing to do
DfsSkip ==
    /\ pc = "dfs" /\ stack # <<>> /\ Top.pending # <<>>
    /\ heap[graph].color[Vertex] # "white"
    /\ ~is_back_link(heap[graph].color[Vertex])
    /\ stack' = Advanced
    /\ UNCHANGED <<pc, heap, cycles_detected, dfs_frame>>

\* line 62: the loop is over, the node turns black and _dfs_visit returns
DfsReturn ==
    /\ pc = "dfs" /\ stack # <<>> /\ Top.pending = <<>>
    /\ heap' = [heap EXCEPT ![graph].color[Top.node] = "black"]
    /\ stack' = SubSeq(stack, 1, Len(stack) - 1)
    /\ pc' = IF Len(stack) > 1 THEN "dfs" ELSE IF scan = 0 THEN "frontier" ELSE "scan"
    /\ UNCHANGED <<cycles_detected, dfs_frame>>

\* lines 99-104: remove edges crossing the iteration frontier
Frontier ==
    /\ pc = "frontier"
    /\ heap' = [heap EXCEPT ![graph] = remove_frontier_edges(@)]
    /\ scan' = 1
    /\ pc' = "scan"
    /\ UNCHANGED <<ops, given, start_arg, graph, start_node, cycles_detected, stack,
                   result, error, round, first, matrices, iterators>>

\* a wrong variant of the last pass: an uncovered vertex is passed over
ScanVisitPassedOver ==
    /\ pc = "scan" /\ scan <= Len(heap[graph].nodes)
    /\ heap[graph].color[heap[graph].nodes[scan]] = "white"
    /\ scan' = scan + 1
    /\ UNCHANGED <<pc, heap, ops, given, start_arg, graph, start_node, cycles_detected,
                   stack, result, error, round, first, matrices, iterators>>

\* lines 107-109: an uncovered (white) vertex is visited
ScanVisit ==
    /\ pc = "scan" /\ scan <= Len(heap[graph].nodes)
    /\ heap[graph].color[heap[graph].nodes[scan]] = "white"
    /\ heap' = [heap EXCEPT ![graph] = dfs_enter(@, heap[graph].nodes[scan])]
    /\ stack' = <<Frame(heap[graph].nodes[scan], heap[graph])>>
    /\ pc' = "dfs"
    /\ UNCHANGED <<cycles_detected, dfs_frame>>

\* lines 107-108: a vertex that is not white is passed over
ScanSkip ==
    /\ pc = "scan" /\ scan <= Len(heap[graph].nodes)
    /\ heap[graph].color[heap[graph].nodes[scan]] # "white"
    /\ scan' = scan + 1
    /\ UNCHANGED <<pc, heap, ops, given, start_arg, graph, start_node, cycles_detected,
                   stack, result, error, round, first, matrices, iterators>>

\* line 111: return graph, cycles_detected
Return ==
    /\ pc = "scan" /\ scan > Len(heap[graph].nodes)
    /\ result' = [shape |-> "tuple", graph |-> graph, cycles |-> cycles_detected]
    /\ pc' = "returned"
    /\ UNCHANGED <<heap, ops, given, start_arg, graph, start_node, cycles_detected,
                   stack, scan, error, round, first, matrices, iterators>>

-----------------------------------------------------------------------------
(* The matrices *)

decyclify_state == <<heap, ops, given, start_arg, graph, start_node, cycles_detected,
                     stack, scan, result, round, first>>

\* the caller calls create_intraiteration_matrix(graph) on the argument it built
CreateIntraiterationMatrix ==
    /\ pc = "build"
    /\ matrix_of' = ArgRef
    /\ IF ~is_graph_or_list(heap[ArgRef])
       THEN /\ error' = "TypeError"
            /\ pc' = "raised"
            /\ UNCHANGED matrix_intraiteration
       ELSE /\ matrix_intraiteration' = create_intraiteration_matrix(heap[ArgRef])
            /\ pc' = "intra"
            /\ UNCHANGED error
    /\ UNCHANGED <<decyclify_state, nodes_arg, cycles_arg, matrix_interiteration,
                   iterators>>

\* the caller builds both matrices from what decyclify returned:
\* create_intraiteration_matrix(graph),
\* create_interiteration_matrix(graph.nodes, cycles_removed)
CreateMatrices ==
    /\ pc = "returned" /\ result.shape = "tuple"
    /\ matrix_of' = result.graph
    /\ matrix_intraiteration' = create_intraiteration_matrix(heap[result.graph])
    /\ nodes_arg' = heap[result.graph].nodes
    /\ cycles_arg' = result.cycles
    /\ matrix_interiteration' =
           create_interiteration_matrix(heap[result.graph].nodes, result.cycles)
    /\ pc' = "matrices"
    /\ UNCHANGED <<decyclify_state, error, iterators>>

Next ==
    \/ \E u, v \in BuildNode : AddEdge(u, v)
    \/ \E u \in BuildNode : AddNode(u)
    \/ \E u, v \in BuildNode : AddLine(u, v)
    \/ \E s \in BuildNode \cup {None} : Decyclify(s)
    \/ DecyclifyAgain
    \/ DfsRecurse
    \/ DfsBackLink
    \/ DfsSkip
    \/ DfsReturn
    \/ Frontier
    \/ ScanVisit
    \/ ScanSkip
    \/ Return
    \/ CreateIntraiterationMatrix
    \/ CreateMatrices

Spec == Init /\ [][Next]_vars

-----------------------------------------------------------------------------
(* create_interiteration_matrix called on its own, on any node list and any  *)
(* list of removed edges between those nodes                                 *)

NodeLists ==
    {s \in UNION {[1..k -> BuildNode] : k \in 0..Cardinality(BuildNode)} :
        \A i, j \in DOMAIN s : s[i] = s[j] => i = j}

EdgeLists(ns) ==
    LET over == IF ns = <<>> THEN BuildNode ELSE SeqToSet(ns)
    IN  UNION {[1..k -> over \X over] : k \in 0..MaxCycles}

InitInter ==
    /\ pc = "inter_call"
    /\ heap = [r \in Refs |-> Object("Free")]
    /\ nodes_arg \in NodeLists
    /\ cycles_arg \in EdgeLists(nodes_arg)
    /\ InitLocals

CreateInteriterationMatrix ==
    /\ pc = "inter_call"
    /\ matrix_interiteration' = create_interiteration_matrix(nodes_arg, cycles_arg)
    /\ pc' = "inter"
    /\ UNCHANGED <<decyclify_state, error, matrix_of, matrix_intraiteration, nodes_arg,
                   cycles_arg, iterators>>

NextInter == CreateInteriterationMatrix

SpecInter == InitInter /\ [][NextInter]_vars

-----------------------------------------------------------------------------
(* The node iterators of decyclify/node_iterators.py.  A label 'a.1' is the  *)
(* pair <<"a", 1>>; without the cycle number a node's text is its name.      *)

\* a Python int given as `cycles`, and a value that is not an int
PyInt(v) == [type |-> "int", value |-> v]

NotInt == [type |-> "NoneType", value |-> 0]

\* The `cycles` arguments the caller passes.
CyclesArguments == {NotInt} \cup {PyInt(v) : v \in -1..MaxIterations}

\* a wrong variant of the checks: only a negative cycles is refused
check_arguments_zero_allowed(o, c) ==
    IF o.type # "DiGraph" THEN "TypeError"
    ELSE IF c.type # "int" THEN "TypeError"
    ELSE IF c.value < 0 THEN "ValueError"
    ELSE None

\* lines 31-36 and 189-194: the checks both constructors start with
check_arguments(o, c) ==
    IF o.type # "DiGraph" THEN "TypeError"
    ELSE IF c.type # "int" THEN "TypeError"
    ELSE IF c.value <= 0 THEN "ValueError"
    ELSE None

\* f'{node}.{cycle}'
node_text(node, cycle) == <<node, cycle>>

\* label.split('.', 1)[0]
node_name(label) == label[1]

\* CycleIterator._get_node_text
get_node_text(it, node) ==
    IF ~it.include_cycle THEN node ELSE node_text(node, it.current_cycle)

\* CycleIterator.__init__, lines 37-45
CycleIterator(G, cycles, include_cycle) ==
    [class |-> "CycleIterator",
     cycles |-> cycles,
     matrix |-> create_intraiteration_matrix(G),
     current_cycle |-> 0,
     current_column |-> -1,
     nodes |-> G.nodes,
     count_nodes |-> Len(G.nodes),
     include_cycle |-> include_cycle]

\* lines 72-76: the rows 1..row of the matrix with a 1 in the column (1-based),
\* in increasing order
RECURSIVE column_rows(_, _, _)
column_rows(M, col, row) ==
    IF row = 0 THEN <<>>
    ELSE column_rows(M, col, row - 1) \o (IF M[row][col] = 1 THEN <<row>> ELSE <<>>)

\* lines 70-79: the loop that passes over empty columns, from Python column
\* `col` (0-based); reading a column past the last one raises IndexError
RECURSIVE scan_columns(_, _)
scan_columns(it, col) ==
    IF col >= it.count_nodes
    THEN [outcome |-> "IndexError", column |-> col, rows |-> <<>>]
    ELSE LET rows == column_rows(it.matrix, col + 1, it.count_nodes)
         IN  IF rows # <<>>
             THEN [outcome |-> "batch", column |-> col, rows |-> rows]
             ELSE scan_columns(it, col + 1)

\* CycleIterator.__next__, lines 56-81: the iterator after the call, how the
\* call ended, and the batch it returned
cycle_iterator_next(it) ==
    LET completed == it.current_column = it.count_nodes - 1
        cycle == IF completed THEN it.current_cycle + 1 ELSE it.current_cycle
    IN  IF completed /\ cycle >= it.cycles
        THEN [it |-> [it EXCEPT !.current_cycle = cycle],
              outcome |-> "StopIteration", batch |-> <<>>]
        ELSE LET col == IF completed THEN -1 ELSE it.current_column
                 it1 == [it EXCEPT !.current_cycle = cycle, !.current_column = col]
             IN  IF col = -1
                 THEN IF it1.count_nodes = 0
                      THEN [it |-> it1, outcome |-> "IndexError", batch |-> <<>>]
                      ELSE [it |-> [it1 EXCEPT !.current_column = 0],
                            outcome |-> "batch",
                            batch |-> <<get_node_text(it1, it1.nodes[1])>>]
                 ELSE LET s == scan_columns(it1, col)
                      IN  IF s.outcome = "IndexError"
                          THEN [it |-> [it1 EXCEPT !.current_column = s.column],
                                outcome |-> "IndexError", batch |-> <<>>]
                          ELSE [it |-> [it1 EXCEPT !.current_column = s.column + 1],
                                outcome |-> "batch",
                                batch |-> [k \in 1..Len(s.rows) |->
                                              get_node_text(it1, it1.nodes[s.rows[k]])]]

\* The graphs the caller hands to an iterator: the graph decyclify returned
\* with a list of removed edges, or an argument that is not a DiGraph at all.
IterableGraphs ==
    IF pc = "returned" /\ result.shape = "tuple" /\ round = 1 THEN {result.graph}
    ELSE IF pc = "build" /\ heap[ArgRef].type # "DiGraph" THEN {ArgRef}
    ELSE {}

iterator_frame == <<decyclify_state, matrices>>

\* the caller constructs CycleIterator(graph, cycles=c)
NewCycleIterator(r, c) ==
    /\ r \in IterableGraphs
    /\ iter_graph' = r
    /\ iter_cycles' = c
    /\ batches' = <<>>
    /\ LET raised == check_arguments(heap[r], c)
       IN  IF raised # None
           THEN /\ error' = raised
                /\ pc' = "raised"
                /\ UNCHANGED cycle_iterator
           ELSE /\ cycle_iterator' = CycleIterator(heap[r], c.value, TRUE)
                /\ pc' = "cycle_iterator"
                /\ UNCHANGED error
    /\ UNCHANGED <<iterator_frame, tasks_iterator>>

\* the caller calls next(iterator) on the CycleIterator
CycleIteratorNext ==
    /\ pc = "cycle_iterator"
    /\ LET call == cycle_iterator_next(cycle_iterator)
       IN  /\ cycle_iterator' = call.it
           /\ batches' = IF call.outcome = "batch" THEN Append(batches, call.batch)
                         ELSE batches
           /\ pc' = CASE call.outcome = "batch" -> "cycle_iterator"
                      [] call.outcome = "StopIteration" -> "exhausted"
                      [] OTHER -> "raised"
           /\ error' = IF call.outcome = "IndexError" THEN "IndexError" ELSE error
    /\ UNCHANGED <<iterator_frame, iter_graph, iter_cycles, tasks_iterator>>

\* list.index(x): the first position of x
list_index(s, x) == CHOOSE i \in DOMAIN s : s[i] = x /\ \A k \in 1..(i - 1) : s[k] # x

\* list.pop(key), key 1-based
list_pop(s, key) == SubSeq(s, 1, key - 1) \o SubSeq(s, key + 1, Len(s))

\* list.remove(x): the first x goes
list_remove(s, x) == list_pop(s, list_index(s, x))

\* [label.split('.', 1)[0] for label in labels]
node_names(labels) == [k \in 1..Len(labels) |-> node_name(labels[k])]

\* [node for node in CycleIterator(...)]: the iterator is advanced until it
\* stops or raises
RECURSIVE iterate_all(_, _)
iterate_more(call, acc) ==
    IF call.outcome = "batch" THEN iterate_all(call.it, Append(acc, call.batch))
    ELSE [outcome |-> call.outcome, batches |-> acc]

iterate_all(it, acc) == iterate_more(cycle_iterator_next(it), acc)

\* Cycle.__init__, lines 93-101, given the outcome of line 97, with `previous`
\* as TasksIterator.__init__ sets it (0: None); .error is the exception of
\* line 97, if any
new_cycle(cycle_number, nodes, interiteration_matrix, previous, all) ==
    [error |-> IF all.outcome = "StopIteration" THEN None ELSE all.outcome,
     cycle |-> [cycle_number |-> cycle_number,
                nodes |-> nodes,
                current_nodes |-> nodes,
                intraiteration_nodes |-> all.batches,
                interiteration_matrix |-> interiteration_matrix,
                previous |-> previous]]

\* Cycle(cycle_number, graph, nodes, interiteration_matrix)
Cycle(cycle_number, G, nodes, interiteration_matrix, previous) ==
    new_cycle(cycle_number, nodes, interiteration_matrix, previous,
              iterate_all(CycleIterator(G, 1, FALSE), <<>>))

\* Cycle._get_node_text
cycle_node_text(c, node) == node_text(node, c.cycle_number)

\* Cycle._next_nodes
next_nodes(c) ==
    IF c.intraiteration_nodes = <<>> THEN <<>>
    ELSE [k \in 1..Len(c.intraiteration_nodes[1]) |->
             cycle_node_text(c, c.intraiteration_nodes[1][k])]

\* Cycle._remove_nodes, lines 128-131: the loop over a copy of one batch;
\* current_nodes.remove raises ValueError for a node that is no longer there
RECURSIVE remove_from_batch(_, _, _, _)
remove_from_batch(todo, batch, current_nodes, nodes) ==
    IF todo = <<>>
    THEN [batch |-> batch, current_nodes |-> current_nodes, error |-> None]
    ELSE IF ~Contains(nodes, Head(todo))
    THEN remove_from_batch(Tail(todo), batch, current_nodes, nodes)
    ELSE IF ~Contains(current_nodes, Head(todo))
    THEN [batch |-> list_remove(batch, Head(todo)), current_nodes |-> current_nodes,
          error |-> "ValueError"]
    ELSE remove_from_batch(Tail(todo), list_remove(batch, Head(todo)),
                           list_remove(current_nodes, Head(todo)), nodes)

\* Cycle._remove_nodes, lines 127-133: the loop over the list of batches, which
\* pops from the list it is enumerating; key is the position of the loop
\* (1-based) and r what the inner loop made of the batch at key
RECURSIVE remove_nodes_loop(_, _, _)
remove_nodes_batch(c, key, nodes, r) ==
    LET kept == [c EXCEPT !.intraiteration_nodes[key] = r.batch,
                          !.current_nodes = r.current_nodes]
    IN  IF r.error # None THEN [cycle |-> kept, error |-> r.error]
        ELSE IF r.batch = <<>>
        THEN remove_nodes_loop([kept EXCEPT !.intraiteration_nodes = list_pop(@, key)],
                               key + 1, nodes)
        ELSE remove_nodes_loop(kept, key + 1, nodes)

remove_nodes_loop(c, key, nodes) ==
    IF key > Len(c.intraiteration_nodes)
    THEN [cycle |-> c, error |-> None]
    ELSE remove_nodes_batch(c, key, nodes,
             remove_from_batch(c.intraiteration_nodes[key], c.intraiteration_nodes[key],
                               c.current_nodes, nodes))

\* Cycle._remove_nodes
remove_nodes(c, nodes) == remove_nodes_loop(c, 1, nodes)

\* the cycle after a removal, with the labels to return
removed_with(r, nodes) == [cycle |-> r.cycle, nodes |-> nodes, error |-> r.error]

\* Cycle._pop_next
pop_next(c) == removed_with(remove_nodes(c, node_names(next_nodes(c))), next_nodes(c))

\* line 162: the list holds the cells of the row that are 1, not their nodes
interiteration_trigger_nodes(row) == SelectSeq(row, LAMBDA value : value = 1)

\* line 171, `interiteration_trigger_node not in self.previous.current_nodes`:
\* the trigger is a matrix cell, the int 1, which equals no node name
trigger_in_nodes(trigger, current_nodes) == FALSE

\* lines 168-173: the loop over the triggers of one node; r is the outcome
\* of line 173
RECURSIVE release_for_triggers(_, _, _, _, _)
release_for_trigger(triggers, label, previous_current_nodes, nodes, r) ==
    IF r.error # None
    THEN [cycle |-> r.cycle, nodes |-> Append(nodes, label), error |-> r.error]
    ELSE release_for_triggers(Tail(triggers), r.cycle, label, previous_current_nodes,
                              Append(nodes, label))

release_for_triggers(triggers, c, label, previous_current_nodes, nodes) ==
    IF triggers = <<>> THEN [cycle |-> c, nodes |-> nodes, error |-> None]
    ELSE IF trigger_in_nodes(Head(triggers), previous_current_nodes)
    THEN release_for_triggers(Tail(triggers), c, label, previous_current_nodes, nodes)
    ELSE release_for_trigger(triggers, label, previous_current_nodes, nodes,
                             remove_nodes(c, <<node_name(label)>>))

\* lines 162-173: a label that passed the test of line 155
release(c, label, previous_current_nodes, nodes, triggers) ==
    IF triggers = <<>>
    THEN removed_with(remove_nodes(c, <<node_name(label)>>), Append(nodes, label))
    ELSE release_for_triggers(triggers, c, label, previous_current_nodes, nodes)

\* lines 151-173: the loop over the labels of the next batch; r is what the
\* body made of the label at the head of todo
RECURSIVE pop_next_interiteration_loop(_, _, _, _, _)
pop_next_interiteration_step(todo, previous_current_nodes, new_nodes, r) ==
    IF r.error # None THEN r
    ELSE pop_next_interiteration_loop(Tail(todo), r.cycle, previous_current_nodes,
                                      new_nodes, r.nodes)

pop_next_interiteration_loop(todo, c, previous_current_nodes, new_nodes, nodes) ==
    IF todo = <<>> THEN [cycle |-> c, nodes |-> nodes, error |-> None]
    ELSE LET node == node_name(Head(todo))
             row_index == list_index(c.nodes, node)
         IN  IF Contains(previous_current_nodes, node) \/ Contains(new_nodes, node)
             THEN pop_next_interiteration_loop(Tail(todo), c, previous_current_nodes,
                                               new_nodes, nodes)
             ELSE IF row_index > Len(c.interiteration_matrix)
             THEN [cycle |-> c, nodes |-> nodes, error |-> "IndexError"]
             ELSE pop_next_interiteration_step(
                      todo, previous_current_nodes, new_nodes,
                      release(c, Head(todo), previous_current_nodes, nodes,
                              interiteration_trigger_nodes(
                                  c.interiteration_matrix[row_index])))

\* a wrong variant without the test of line 155: what the previous cycle still
\* holds and what this step has released are not looked at
pop_next_interiteration_ungated(c, previous_current_nodes, new_nodes_in_this_cycle) ==
    pop_next_interiteration_loop(next_nodes(c), c, <<>>, <<>>, <<>>)

\* Cycle._pop_next_interiteration, for a cycle that has a previous one
pop_next_interiteration(c, previous_current_nodes, new_nodes_in_this_cycle) ==
    pop_next_interiteration_loop(next_nodes(c), c, previous_current_nodes,
                                 node_names(new_nodes_in_this_cycle), <<>>)

\* Cycle.iterate, lines 104-116, of the Cycle object k: r is what line 106
\* (first) or line 115 made
cycle_iterated(it, k, r, is_first) ==
    [it |-> [it EXCEPT !.objects[k] = r.cycle],
     nodes |-> r.nodes,
     outcome |-> IF r.error # None THEN r.error
                 ELSE IF is_first /\ r.nodes = <<>> THEN "RemoveCycle"
                 ELSE "return"]

\* Cycle.iterate of the Cycle object k of the iterator
cycle_iterate(it, k, new_nodes_in_this_cycle) ==
    IF it.objects[k].previous = 0
    THEN cycle_iterated(it, k, pop_next(it.objects[k]), TRUE)
    ELSE cycle_iterated(it, k,
             pop_next_interiteration(it.objects[k],
                                     it.objects[it.objects[k].previous].current_nodes,
                                     new_nodes_in_this_cycle),
             FALSE)

\* TasksIterator.__next__, lines 224-228: the loop over a copy of self.cycles;
\* r is what cycle.iterate made for the cycle at the head of todo
RECURSIVE tasks_loop(_, _, _)
tasks_loop_step(todo, new_nodes_in_this_cycle, r) ==
    IF r.outcome = "RemoveCycle"
    THEN tasks_loop(Tail(todo), [r.it EXCEPT !.cycles = list_remove(@, Head(todo))],
                    new_nodes_in_this_cycle)
    ELSE IF r.outcome = "return"
    THEN tasks_loop(Tail(todo), r.it, new_nodes_in_this_cycle \o r.nodes)
    ELSE [it |-> r.it, nodes |-> new_nodes_in_this_cycle, error |-> r.outcome]

tasks_loop(todo, it, new_nodes_in_this_cycle) ==
    IF todo = <<>>
    THEN [it |-> it, nodes |-> new_nodes_in_this_cycle, error |-> None]
    ELSE tasks_loop_step(todo, new_nodes_in_this_cycle,
                         cycle_iterate(it, Head(todo), new_nodes_in_this_cycle))

\* lines 230-234, after the loop
tasks_loop_end(r) ==
    IF r.error # None THEN [it |-> r.it, outcome |-> r.error, batch |-> <<>>]
    ELSE IF r.nodes = <<>> THEN [it |-> r.it, outcome |-> "StopIteration", batch |-> <<>>]
    ELSE [it |-> r.it, outcome |-> "batch", batch |-> r.nodes]

\* TasksIterator.__next__, lines 218-234
tasks_iterator_next(it) ==
    IF it.cycles = <<>>
    THEN [it |-> it, outcome |-> "StopIteration", batch |-> <<>>]
    ELSE tasks_loop_end(tasks_loop(it.cycles, it, <<>>))

\* lines 202-213: the Cycle objects are kept in .objects and self.cycles is
\* the list of their positions, since a Cycle taken out of self.cycles is still
\* the `previous` of the next one; .error is the exception a Cycle's
\* construction raised, if any
linked_cycles(nodes, intraiteration_matrix, interiteration_matrix, made) ==
    [error |-> IF made = <<>> THEN None ELSE made[1].error,
     it |-> [class |-> "TasksIterator",
             nodes |-> nodes,
             intraiteration_matrix |-> intraiteration_matrix,
             interiteration_matrix |-> interiteration_matrix,
             objects |-> [k \in DOMAIN made |-> made[k].cycle],
             cycles |-> [k \in DOMAIN made |-> k]]]

\* TasksIterator.__init__, lines 195-213
TasksIterator(G, cycles_removed, cycles) ==
    linked_cycles(G.nodes,
                  create_intraiteration_matrix(G),
                  create_interiteration_matrix(G.nodes, cycles_removed),
                  [k \in 1..cycles |->
                      Cycle(k - 1, G, G.nodes,
                            create_interiteration_matrix(G.nodes, cycles_removed), k - 1)])

\* the removed-edge list that goes with a graph handed to TasksIterator
RemovedWith(r) == IF r = result.graph THEN result.cycles ELSE <<>>

\* the end of TasksIterator.__init__: the object exists unless line 97 raised
tasks_iterator_constructed(new) ==
    IF new.error # None
    THEN /\ error' = new.error
         /\ pc' = "raised"
         /\ UNCHANGED tasks_iterator
    ELSE /\ tasks_iterator' = new.it
         /\ pc' = "tasks_iterator"
         /\ UNCHANGED error

\* the caller constructs TasksIterator(graph, cycles_removed, cycles=c)
NewTasksIterator(r, c) ==
    /\ r \in IterableGraphs
    /\ iter_graph' = r
    /\ iter_cycles' = c
    /\ batches' = <<>>
    /\ IF check_arguments(heap[r], c) # None
       THEN /\ error' = check_arguments(heap[r], c)
            /\ pc' = "raised"
            /\ UNCHANGED tasks_iterator
       ELSE tasks_iterator_constructed(TasksIterator(heap[r], RemovedWith(r), c.value))
    /\ UNCHANGED <<iterator_frame, cycle_iterator>>

\* what a call of next(iterator) leaves: the batch is appended to what the
\* caller has received, StopIteration ends the iteration, anything else is raised
tasks_iterator_returned(call) ==
    /\ tasks_iterator' = call.it
    /\ batches' = IF call.outcome = "batch" THEN Append(batches, call.batch) ELSE batches
    /\ pc' = CASE call.outcome = "batch" -> "tasks_iterator"
               [] call.outcome = "StopIteration" -> "exhausted"
               [] OTHER -> "raised"
    /\ error' = IF call.outcome \in {"batch", "StopIteration"} THEN error
                ELSE call.outcome

\* the caller calls next(iterator) on the TasksIterator
TasksIteratorNext ==
    /\ pc = "tasks_iterator"
    /\ tasks_iterator_returned(tasks_iterator_next(tasks_iterator))
    /\ UNCHANGED <<iterator_frame, iter_graph, iter_cycles, cycle_iterator>>

\* The graph of the tests of the iterators: a->b, a->e, b->c, c->b, c->d.
ScenarioEdges ==
    <<<<"a", "b">>, <<"a", "e">>, <<"b", "c">>, <<"c", "b">>, <<"c", "d">>>>

RECURSIVE add_edges(_, _)
add_edges(G, edges) ==
    IF edges = <<>> THEN G
    ELSE add_edges(add_edge(G, Head(edges)[1], Head(edges)[2]), Tail(edges))

ScenarioGraph == add_edges(EmptyDiGraph, ScenarioEdges)

\* The caller has built the graph of the tests, one add_edge per edge.
InitScenario ==
    /\ pc = "build"
    /\ heap = [r \in Refs |-> IF r = ArgRef THEN ScenarioGraph ELSE Object("Free")]
    /\ nodes_arg = <<>>
    /\ cycles_arg = <<>>
    /\ ops = Len(ScenarioEdges)
    /\ given = Object("Free")
    /\ start_arg = None
    /\ graph = 0
    /\ start_node = None
    /\ cycles_detected = <<>>
    /\ stack = <<>>
    /\ scan = 0
    /\ result = NoResult
    /\ error = None
    /\ round = 1
    /\ first = NoFirst
    /\ matrix_of = 0
    /\ matrix_intraiteration = <<>>
    /\ matrix_interiteration = <<>>
    /\ iter_graph = 0
    /\ iter_cycles = NoCycles
    /\ cycle_iterator = NoIterator
    /\ tasks_iterator = NoIterator
    /\ batches = <<>>

\* Any small graph, or the graph of the tests.
InitIterators == Init \/ InitScenario

\* decyclify, the matrices and the iterators over what decyclify returned
NextIterators ==
    \/ Next
    \/ \E r \in Refs, c \in CyclesArguments : NewCycleIterator(r, c)
    \/ CycleIteratorNext
    \/ \E r \in Refs, c \in CyclesArguments : NewTasksIterator(r, c)
    \/ TasksIteratorNext

SpecIterators == InitIterators /\ [][NextIterators]_vars

-----------------------------------------------------------------------------
(* Graph notions the properties are stated with *)

\* The graph an argument stands for: a list of lines is parsed.
AsGraph(o) == IF o.type = "List" THEN parse_edgelist(o.lines) ELSE o

\* The graph decyclify was called on, and the graph object it returned.
Input == AsGraph(given)
Returned == heap[result.graph]

Successors(G, S) == {v \in Node : \E u \in S : has_edge(G, u, v)}

RECURSIVE Closure(_, _, _)
Closure(G, S, k) == IF k = 0 THEN S ELSE Closure(G, S \cup Successors(G, S), k - 1)

\* The nodes reached from u by a path of at least one edge.
Descendants(G, u) == Closure(G, Successors(G, {u}), Cardinality(Node))

Acyclic(G) == \A u \in Node : u \notin Descendants(G, u)

IsSquare(M, n) == Len(M) = n /\ \A i \in 1..n : Len(M[i]) = n

ReturnedTuple == pc = "returned" /\ result.shape = "tuple"

-----------------------------------------------------------------------------
(* Properties *)

\* C1: for every graph and every start node of it, the graph decyclify
\* returns has no directed cycle.
C1_Acyclic == ReturnedTuple => Acyclic(Returned)

\* C1 is exercised by: a call that returned for a start node that does not reach a
\* node carrying a self-loop (a cycle in a component the first visit never sees).
C1_Witness ==
    /\ ReturnedTuple /\ round = 1 /\ start_arg # None
    /\ \E n \in SeqToSet(Input.nodes) :
          /\ n \notin {start_node} \cup Descendants(Input, start_node)
          /\ has_edge(Input, n, n)

\* C2: every edge of the input graph is, after decyclify, either retained in
\* the returned graph or listed in removedEdges: exactly one of the two.
C2_EveryEdgeKeptOrRemoved ==
    (ReturnedTuple /\ round = 1) =>
        \A e \in Edges(Input) :
            (e \in Edges(Returned)) # (e \in SeqToSet(result.cycles))

\* C3: idempotence: decyclify applied (default start node both times) to the
\* graph it returned gives back a pair whose graph has the same nodes, node
\* order and edges, and whose removedEdges is empty.
C3_Idempotent ==
    (pc = "returned" /\ round = 2 /\ first.start = None) =>
        /\ first.shape = "tuple"
        /\ result.shape = "tuple"
        /\ Returned.nodes = first.nodes
        /\ \A u, v \in Node : has_edge(Returned, u, v) <=> Contains(first.adj[u], v)
        /\ result.cycles = <<>>

\* C3 restricted to the graphs with at least one node, for which decyclify
\* returns a pair: there the second call changes nothing and removes nothing.
C3_IdempotentNonEmpty ==
    (pc = "returned" /\ round = 2 /\ first.start = None /\ first.nodes # <<>>) =>
        /\ result.shape = "tuple"
        /\ Returned.nodes = first.nodes
        /\ Returned.adj = first.adj
        /\ result.cycles = <<>>

\* C4: an acyclic input is a fixed point for every start node: removedEdges
\* is empty and the returned graph has exactly the edges of the input.
C4_AcyclicFixedPoint ==
    (ReturnedTuple /\ round = 1 /\ Acyclic(Input)) =>
        /\ result.cycles = <<>>
        /\ Edges(Returned) = Edges(Input)

\* what holds of every removed edge once decyclify has returned
C5_AtReturn ==
    (ReturnedTuple /\ round = 1) =>
        \A i \in DOMAIN result.cycles :
            LET u == result.cycles[i][1]
                v == result.cycles[i][2]
            IN  /\ has_edge(Input, u, v)
                /\ ~has_edge(Returned, u, v)
                /\ u = v \/ u \in Descendants(Returned, v)

\* what holds of the step that lists an edge
C5_Step ==
    (cycles_detected' # cycles_detected /\ cycles_detected' # <<>>) =>
        LET e == cycles_detected'[Len(cycles_detected')]
        IN  /\ cycles_detected' = Append(cycles_detected, e)
            /\ has_edge(heap[graph], e[1], e[2])
            /\ heap[graph].color[e[2]] = "gray"
            /\ ~has_edge(heap'[graph], e[1], e[2])

\* C5: every edge (u, v) of removedEdges is an edge of the original graph, is
\* absent from the returned graph, and is a back-edge: v was gray (InProgress)
\* when the edge was examined, and the returned graph still has a path from v
\* to u (or u = v, a self-loop).
C5_RemovedAreBackEdges == []C5_AtReturn /\ [][C5_Step]_vars

\* C5 is exercised by: a call that returned at least two removed edges, one of
\* them between two different nodes.
C5_Witness ==
    /\ ReturnedTuple /\ round = 1
    /\ Len(result.cycles) >= 2
    /\ \E i \in DOMAIN result.cycles : result.cycles[i][1] # result.cycles[i][2]

\* C6: on a graph with no nodes decyclify returns both the empty graph and an
\* empty removed-edges list, and never starts a traversal.
C6_EmptyReturnsBoth ==
    (pc = "returned" /\ Len(Input.nodes) = 0) =>
        /\ stack = <<>>
        /\ Len(Returned.nodes) = 0
        /\ result.shape = "tuple"
        /\ result.cycles = <<>>

\* C7: once decyclify has been called, the caller's argument stays what it
\* was at the call: same nodes, edges and node attributes, whether the call
\* returns or raises.
C7_CallerGraphUntouched == given.type # "Free" => heap[ArgRef] = given

\* C7 is exercised by: a call on a DiGraph that returned after removing an edge and
\* colouring the nodes (of its copy).
C7_Witness ==
    /\ ReturnedTuple /\ given.type = "DiGraph"
    /\ result.cycles # <<>>
    /\ Edges(Returned) # Edges(given)
    /\ Returned.color # given.color

\* C8 as stated: for n >= 1 nodes and the removed edges decyclify produced,
\* both matrices have n rows of n cells.
C8_BothSquare ==
    (pc = "matrices" /\ Len(nodes_arg) >= 1) =>
        /\ IsSquare(matrix_intraiteration, Len(nodes_arg))
        /\ IsSquare(matrix_interiteration, Len(nodes_arg))

\* C8 amended: for n >= 1 nodes the intra-iteration matrix has n rows of n
\* cells; the inter-iteration matrix has n rows of n cells when decyclify
\* removed at least one edge, and is the empty matrix (no rows) when it
\* removed none.
C8_Dimensions ==
    (pc = "matrices" /\ Len(nodes_arg) >= 1) =>
        /\ IsSquare(matrix_intraiteration, Len(nodes_arg))
        /\ IF cycles_arg = <<>>
           THEN matrix_interiteration = <<>>
           ELSE IsSquare(matrix_interiteration, Len(nodes_arg))

\* C8 is exercised by: both matrices built for a three-node graph from which
\* decyclify removed an edge.
C8_Witness ==
    /\ pc = "matrices" /\ Len(nodes_arg) = 3 /\ cycles_arg # <<>>
    /\ IsSquare(matrix_interiteration, 3)

\* C9: for a graph with n >= 1 nodes create_intraiteration_matrix returns
\* the n x n matrix M with M[i][j] = 1 iff i # j and the graph has the edge
\* node_j -> node_i, and 0 otherwise; the diagonal is 0 even with self-loops.
C9_IntraMatrix ==
    LET G == AsGraph(heap[matrix_of])
        n == Len(G.nodes)
    IN  (pc \in {"intra", "matrices"} /\ n >= 1) =>
            /\ IsSquare(matrix_intraiteration, n)
            /\ \A i, j \in 1..n :
                  matrix_intraiteration[i][j] =
                      IF i # j /\ <<G.nodes[j], G.nodes[i]>> \in Edges(G) THEN 1 ELSE 0

\* C9 is exercised by: the matrix of a graph with a self-loop and an edge u -> v
\* whose reverse v -> u is absent.
C9_Witness ==
    /\ pc = "intra"
    /\ \E u, v \in Node :
          /\ u # v
          /\ has_edge(AsGraph(heap[matrix_of]), u, u)
          /\ has_edge(AsGraph(heap[matrix_of]), u, v)
          /\ ~has_edge(AsGraph(heap[matrix_of]), v, u)

\* C10: create_interiteration_matrix(nodes, removedEdges) returns the empty
\* matrix when nodes or removedEdges is empty; otherwise the n x n matrix M
\* with M[r][c] = 1 iff (node_c, node_r) is in removedEdges, and 0 otherwise.
C10_InterMatrix ==
    (pc \in {"inter", "matrices"}) =>
        IF nodes_arg = <<>> \/ cycles_arg = <<>>
        THEN matrix_interiteration = <<>>
        ELSE /\ IsSquare(matrix_interiteration, Len(nodes_arg))
             /\ \A r, c \in 1..Len(nodes_arg) :
                   matrix_interiteration[r][c] =
                       IF <<nodes_arg[c], nodes_arg[r]>> \in SeqToSet(cycles_arg)
                       THEN 1 ELSE 0

\* C10 is exercised by: the matrix of three nodes and two removed edges, one of
\* them without its reverse.
C10_Witness ==
    /\ pc = "inter" /\ Len(nodes_arg) = 3 /\ Len(cycles_arg) = 2
    /\ cycles_arg[1] # cycles_arg[2]
    /\ \E i \in DOMAIN cycles_arg :
          /\ cycles_arg[i][1] # cycles_arg[i][2]
          /\ <<cycles_arg[i][2], cycles_arg[i][1]>> \notin SeqToSet(cycles_arg)

-----------------------------------------------------------------------------
(* The iterators *)

\* The graph handed to the iterator and the number of cycles asked for.
Iterated == heap[iter_graph]
N == iter_cycles.value

\* A CycleIterator / TasksIterator was constructed and its iteration is over:
\* it stopped or it raised.
CycleIteratorOver ==
    cycle_iterator.class = "CycleIterator" /\ pc \in {"exhausted", "raised"}
TasksIteratorOver ==
    tasks_iterator.class = "TasksIterator" /\ pc \in {"exhausted", "raised"}

\* The iteration is that of the tests: the graph of the tests decyclified from 'a',
\* two cycles.
Scenario == given = ScenarioGraph /\ start_arg = "a" /\ round = 1 /\ iter_cycles = PyInt(2)

\* The batch of the nodes ns, each with the cycle number k.
Batch(ns, k) == [i \in 1..Len(ns) |-> node_text(ns[i], k)]

\* The batches of one cycle, each node with the cycle number k.
WithCycle(single, k) == [i \in 1..Len(single) |-> Batch(single[i], k)]

\* The single-cycle sequence `single` n times in a row, cycle numbers 0..n-1.
RECURSIVE Repeated(_, _)
Repeated(single, n) ==
    IF n = 0 THEN <<>> ELSE Repeated(single, n - 1) \o WithCycle(single, n - 1)

\* The batches of CycleIterator(graph, cycles=1), without cycle numbers, and how
\* that iteration ends.
SingleCycle(G) == iterate_all(CycleIterator(G, 1, FALSE), <<>>)

\* C11: a CycleIterator over a decyclified graph with cycles = N yields the batches
\* of a single cycle N times in a row, the k-th time with the suffix .k, and then
\* ends; for the graph of the tests and N = 2 the batches are
\* [[a.0],[b.0,e.0],[c.0],[d.0],[a.1],[b.1,e.1],[c.1],[d.1]].
C11_RepeatsSingleCycle ==
    /\ CycleIteratorOver =>
           /\ pc = "exhausted"
           /\ batches = Repeated(SingleCycle(Iterated).batches, N)
    /\ (CycleIteratorOver /\ Scenario) =>
           batches = Repeated(<<<<"a">>, <<"b", "e">>, <<"c">>, <<"d">>>>, 2)

\* The part of C11 about the graph of the tests holds on its own.
C11_ScenarioSequence ==
    (CycleIteratorOver /\ Scenario) =>
        /\ pc = "exhausted"
        /\ batches = <<Batch(<<"a">>, 0), Batch(<<"b", "e">>, 0), Batch(<<"c">>, 0),
                       Batch(<<"d">>, 0), Batch(<<"a">>, 1), Batch(<<"b", "e">>, 1),
                       Batch(<<"c">>, 1), Batch(<<"d">>, 1)>>

\* C12: for the graph of the tests decyclified from 'a', a TasksIterator with
\* cycles = 2 yields exactly [[a.0],[b.0,e.0,a.1],[c.0,b.1],[d.0,c.1],[d.1]] and
\* then ends.
C12_ScenarioBatches ==
    (TasksIteratorOver /\ Scenario) =>
        /\ pc = "exhausted"
        /\ result.cycles = <<<<"c", "b">>>>
        /\ batches = <<<<node_text("a", 0)>>,
                       <<node_text("b", 0), node_text("e", 0), node_text("a", 1)>>,
                       <<node_text("c", 0), node_text("b", 1)>>,
                       <<node_text("d", 0), node_text("c", 1)>>,
                       <<node_text("d", 1)>>>>

\* What the code yields for C12's iteration: e.1 is released with c.0 and b.1.
C12_BatchesOfTheCode ==
    (TasksIteratorOver /\ Scenario) =>
        /\ pc = "exhausted"
        /\ batches = <<<<node_text("a", 0)>>,
                       <<node_text("b", 0), node_text("e", 0), node_text("a", 1)>>,
                       <<node_text("c", 0), node_text("b", 1), node_text("e", 1)>>,
                       <<node_text("d", 0), node_text("c", 1)>>,
                       <<node_text("d", 1)>>>>

\* The iterations of the tests are reached.
ScenarioCycleIteratorOver == CycleIteratorOver /\ Scenario
ScenarioTasksIteratorOver == TasksIteratorOver /\ Scenario

\* The label is in the i-th batch the iterator returned.
InBatch(label, i) == Contains(batches[i], label)

\* The number of times the label was returned, over all batches.
RECURSIVE Count(_, _)
Count(label, i) ==
    IF i = 0 THEN 0
    ELSE Count(label, i - 1)
         + Cardinality({k \in DOMAIN batches[i] : batches[i][k] = label})

Emitted(label) == Count(label, Len(batches))

\* C13: in a TasksIterator, for every removed back-edge (source, target) and every
\* cycle k >= 1, target.k is released only in a step after the step that released
\* source.(k-1).
C13_CrossCycleGating ==
    tasks_iterator.class = "TasksIterator" =>
        \A e \in SeqToSet(result.cycles), k \in 1..(N - 1), i \in DOMAIN batches :
            InBatch(node_text(e[2], k), i) =>
                \E j \in 1..(i - 1) : InBatch(node_text(e[1], k - 1), j)

\* The weaker reading of C13, which lets target.k go out in the step that releases
\* source.(k-1), fails as well.
C13_NotBeforeItsSource ==
    tasks_iterator.class = "TasksIterator" =>
        \A e \in SeqToSet(result.cycles), k \in 1..(N - 1), i \in DOMAIN batches :
            InBatch(node_text(e[2], k), i) =>
                \E j \in 1..i : InBatch(node_text(e[1], k - 1), j)

\* C14: in a TasksIterator, for every edge u -> v the decyclified graph retains and
\* every cycle k, v.k is never released in a step before the step that releases
\* u.k.
C14_IntraCycleOrder ==
    tasks_iterator.class = "TasksIterator" =>
        \A e \in Edges(Iterated), k \in 0..(N - 1), i, j \in DOMAIN batches :
            (InBatch(node_text(e[2], k), i) /\ InBatch(node_text(e[1], k), j)) =>
                \E h \in 1..i : InBatch(node_text(e[1], k), h)

\* C15: a CycleIterator emits a cycle's nodes in dependency order: for every edge
\* u -> v the decyclified graph retains and every cycle k, every batch with v.k
\* comes strictly after a batch with u.k.
C15_TopologicalOrder ==
    cycle_iterator.class = "CycleIterator" =>
        \A e \in Edges(Iterated), k \in 0..(N - 1), i \in DOMAIN batches :
            InBatch(node_text(e[2], k), i) =>
                \E j \in 1..(i - 1) : InBatch(node_text(e[1], k), j)

\* C16: a CycleIterator with cycles = N over a decyclified graph terminates: it
\* returns finitely many batches and then signals the end (StopIteration) once
\* cycle N-1 is complete; trailing empty columns lead to the next cycle or to the
\* end, never to an error.
C16_CycleIteratorTerminates ==
    /\ cycle_iterator.class = "CycleIterator" =>
           Len(batches) <= N * Len(Iterated.nodes)
    /\ CycleIteratorOver =>
           /\ pc = "exhausted"
           /\ error = None
           /\ cycle_iterator.current_cycle = N

\* TasksIterator(graph, cycles_removed, cycles) with valid arguments raised while
\* it built its Cycle objects: no CycleIterator was asked for, and IndexError is
\* what line 97 raises.
TasksIteratorNotBuilt ==
    /\ pc = "raised" /\ error = "IndexError"
    /\ cycle_iterator.class = "none" /\ tasks_iterator.class = "none"

\* C17: a TasksIterator over a decyclified graph with its removed-edge list and
\* cycles = N >= 1 releases every label node.k, 0 <= k < N, and then ends, at the
\* first step whose batch is empty.
C17_TasksIteratorCompletes ==
    /\ ~TasksIteratorNotBuilt
    /\ TasksIteratorOver =>
           /\ pc = "exhausted"
           /\ \A n \in SeqToSet(Iterated.nodes), k \in 0..(N - 1) :
                  Emitted(node_text(n, k)) >= 1

\* A constructor of an iterator was called.
IteratorAsked == iter_cycles.type # "none"

NoIteratorExists ==
    /\ cycle_iterator.class = "none" /\ tasks_iterator.class = "none"
    /\ batches = <<>>
    /\ pc = "raised"

\* C18: decyclify and create_intraiteration_matrix raise TypeError for an argument
\* that is neither a graph nor a list; the constructors of CycleIterator and
\* TasksIterator raise TypeError for an argument that is not a graph or a cycles
\* that is not an int, ValueError for cycles <= 0; then there is no iterator and
\* no batch.
C18_InvalidArguments ==
    /\ (given.type \notin {"Free", "DiGraph", "List"}) =>
           pc = "raised" /\ error = "TypeError" /\ result = NoResult
    /\ (matrix_of = ArgRef /\ heap[ArgRef].type \notin {"DiGraph", "List"}) =>
           pc = "raised" /\ error = "TypeError" /\ matrix_intraiteration = <<>>
    /\ (IteratorAsked /\ (Iterated.type # "DiGraph" \/ iter_cycles.type # "int")) =>
           NoIteratorExists /\ error = "TypeError"
    /\ (IteratorAsked /\ Iterated.type = "DiGraph" /\ iter_cycles.type = "int"
            /\ N <= 0) =>
           NoIteratorExists /\ error = "ValueError"

\* C18 is exercised by: a constructor called on a decyclified graph of three
\* nodes with cycles = 0.
C18_Witness ==
    /\ IteratorAsked /\ iter_cycles = PyInt(0)
    /\ Iterated.type = "DiGraph" /\ Len(Iterated.nodes) = 3
    /\ pc = "raised" /\ error = "ValueError"

\* C19: for a graph with at least one node and any start node, the graph
\* decyclify returns has exactly the nodes of the input, in the input's order.
C19_NodesPreserved == ReturnedTuple => Returned.nodes = Input.nodes

\* C19 is exercised by: three nodes, one of them without an edge, a start node
\* that is not the first node, and an edge removed.
C19_Witness ==
    /\ ReturnedTuple /\ round = 1
    /\ Len(Input.nodes) = 3
    /\ \E n \in SeqToSet(Input.nodes) :
          /\ Input.adj[n] = <<>>
          /\ \A u \in Node : ~has_edge(Input, u, n)
    /\ start_arg \notin {None, Input.nodes[1]}
    /\ result.cycles # <<>>

\* The labels of the batches, in the order they were returned.
RECURSIVE Flat(_)
Flat(bs) == IF bs = <<>> THEN <<>> ELSE Head(bs) \o Flat(Tail(bs))

\* C20: a CycleIterator that ran to its end emitted, for every cycle k < N, each
\* node's label node.k exactly once, and every label of cycle k before any label
\* of cycle k+1.
C20_AllNodesOncePerCycle ==
    (cycle_iterator.class = "CycleIterator" /\ pc = "exhausted") =>
        /\ \A n \in SeqToSet(Iterated.nodes), k \in 0..(N - 1) :
               Emitted(node_text(n, k)) = 1
        /\ \A i, j \in DOMAIN Flat(batches) :
               i < j => Flat(batches)[i][2] <= Flat(batches)[j][2]

\* The nodes a Cycle object would release next.
NextBatch(c) == IF c.intraiteration_nodes = <<>> THEN <<>> ELSE c.intraiteration_nodes[1]

\* No removed edge leads to the node: it has no inter-iteration dependency.
NoInterDependency(n) == \A e \in SeqToSet(result.cycles) : e[2] # n

\* The step returned a batch with the label in it.
Releases(label) ==
    /\ Len(batches') = Len(batches) + 1
    /\ Contains(batches'[Len(batches')], label)

\* One call of next() on a TasksIterator: a node without inter-iteration
\* dependency that is in the next batch of a cycle k >= 1, and whose label of
\* cycle k-1 was released in an earlier step, is released by the call.
C21_Step ==
    pc = "tasks_iterator" =>
        \A o \in 2..Len(tasks_iterator.objects) :
            \A n \in SeqToSet(NextBatch(tasks_iterator.objects[o])) :
                (NoInterDependency(n) /\ Emitted(node_text(n, o - 2)) >= 1) =>
                    Releases(node_text(n, o - 1))

\* C21: in a TasksIterator a node of a later cycle that has no inter-iteration
\* dependency is released as soon as it is in its cycle's next batch and the same
\* node of the cycle before was released in an earlier step; in particular every
\* node, when the removed-edge list is empty and cycles >= 2.
C21_ReleasedWithoutDependency == [][C21_Step]_vars

\* C22: over a whole TasksIterator run no label is returned more than once,
\* neither twice in one batch nor in two batches.
C22_NoLabelTwice ==
    tasks_iterator.class = "TasksIterator" =>
        \A n \in SeqToSet(Iterated.nodes), k \in 0..(N - 1) :
            Emitted(node_text(n, k)) <= 1

\* C22 fails already within one batch.
C22_NoLabelTwiceInABatch ==
    tasks_iterator.class = "TasksIterator" =>
        \A i \in DOMAIN batches :
            \A h, j \in DOMAIN batches[i] : batches[i][h] = batches[i][j] => h = j

\* C23: when decyclify returns for a graph with at least one node, every node of
\* the returned graph is black, whichever the start node and whether or not it
\* reaches all nodes.
C23_AllNodesBlack ==
    ReturnedTuple => \A n \in SeqToSet(Returned.nodes) : Returned.color[n] = "black"

\* C23 is exercised by: a graph of three nodes returned from a start node that is
\* given and does not reach all of them.
C23_Witness ==
    /\ ReturnedTuple /\ round = 1
    /\ Len(Input.nodes) = 3
    /\ start_arg # None
    /\ \E n \in SeqToSet(Input.nodes) :
          n # start_arg /\ n \notin Descendants(Input, start_arg)

\* C24: in a TasksIterator, X.(k+1) is released only in a step strictly after the
\* step that released X.k; no batch holds one node with two cycle numbers.
C24_ConsecutiveCyclesApart ==
    tasks_iterator.class = "TasksIterator" =>
        /\ \A n \in SeqToSet(Iterated.nodes), k \in 0..(N - 2), i \in DOMAIN batches :
               InBatch(node_text(n, k + 1), i) =>
                   \E j \in 1..(i - 1) : InBatch(node_text(n, k), j)
        /\ \A i \in DOMAIN batches :
               \A h, j \in DOMAIN batches[i] :
                   node_name(batches[i][h]) = node_name(batches[i][j]) =>
                       batches[i][h] = batches[i][j]

\* C24 is exercised by: an iteration over two cycles that ended after it had
\* released one node in both of them.
C24_Witness ==
    /\ TasksIteratorOver /\ pc = "exhausted" /\ N = 2
    /\ \E n \in SeqToSet(Iterated.nodes) :
          \A k \in 0..1 : Emitted(node_text(n, k)) >= 1

\* Every label of the iteration was released.
AllReleased ==
    \A n \in SeqToSet(Iterated.nodes), k \in 0..(N - 1) : Emitted(node_text(n, k)) >= 1

\* C25: every Cycle, not only cycle 0, is taken out of the active cycles once it
\* has released all its nodes: when the iteration ends after all labels were
\* released, no cycle is active.
C25_NoActiveCycleAtTheEnd ==
    (TasksIteratorOver /\ pc = "exhausted" /\ AllReleased) =>
        tasks_iterator.cycles = <<>>

====
